---- MODULE Spec2Model ----
(***************************************************************************)
(* net_async: the Connection negotiator (Connection.__init__ and its       *)
(* device_check) and the AsyncSessions orchestrator (connection, the       *)
(* per-target task, run on the multithread pool).                          *)
(*                                                                         *)
(* The transport (netmiko: SSHDetect, ConnectHandler, enable, send_command)*)
(* is external: every call of it either returns one of the answers the     *)
(* code distinguishes or raises one of the exception classes the code's    *)
(* except clauses distinguish.  ConnectHandler.disconnect never raises     *)
(* (netmiko swallows every exception inside disconnect).                   *)
(***************************************************************************)
EXTENDS Integers, Sequences, FiniteSets, TLC

VARIABLES
    mgmt_ips,            \* the target list handed to AsyncSessions
    threads,             \* the threads argument of multithread
    kw_enable,           \* the 'enable' keyword of the Connection call
    main,                \* where AsyncSessions.__init__ is
    pc,                  \* pc[t]: where task t (connection(mgmt_ips[t])) is
    session,             \* session[t]: the Connection object of the current pass
    no_config_priv,      \* no_config_priv[t]: the local flag of connection()
    orphaned,            \* orphaned[t]: a session the task opened was dropped undisconnected
    signals,             \* signals[t]: how the passes of task t ended so far
    successful_devices,
    failed_devices,
    outputs,
    trace,               \* trace[t]: the fallback steps of a construction run step by step
    called,              \* called[t]: the last configuration method called on the object
    verbose,             \* the verbose argument of AsyncSessions
    screen_lock,         \* the value of the Semaphore screen_lock
    sync_print           \* sync_print[t]: where task t is inside sync_print

vars == <<mgmt_ips, threads, kw_enable, main, pc, session, no_config_priv,
          orphaned, signals, successful_devices, failed_devices, outputs, trace, called,
          verbose, screen_lock, sync_print>>

-----------------------------------------------------------------------------
(* Exception classes told apart by the except clauses of Connection.__init__ *)

ValueError == "ValueError"
EOFError == "EOFError"
ConnectionRefusedError == "ConnectionRefusedError"
NetmikoAuthenticationException == "NetmikoAuthenticationException"
NetmikoTimeoutException == "NetmikoTimeoutException"
SSHException == "SSHException"
TimeoutError == "TimeoutError"
ConnectionResetError == "ConnectionResetError"
OSError == "OSError"
\* any other Exception: TypeError, KeyError, IndexError, ...
Exception == "Exception"

Excs == {ValueError, EOFError, ConnectionRefusedError, NetmikoAuthenticationException,
         NetmikoTimeoutException, SSHException, TimeoutError, ConnectionResetError,
         OSError, Exception}

\* except (ValueError, EOFError) of the two inner SSH try blocks
DetectionErrors == {ValueError, EOFError}

\* the tuple of the except clause that starts the Telnet steps
TelnetFallbackErrors == {ConnectionRefusedError, ValueError, NetmikoAuthenticationException,
                         NetmikoTimeoutException, SSHException}

\* classes the clause 'except OSError' catches and that no earlier clause caught
OSErrors == {TimeoutError, ConnectionResetError, OSError}

\* the except clauses of the Telnet try block that only record the class name
TelnetRecorded == {NetmikoTimeoutException, ConnectionRefusedError, ValueError,
                   TimeoutError, ConnectionResetError}

-----------------------------------------------------------------------------
(* The Connection object *)

\* Connection.__init__ up to the definition of device_check
NewConnection(enable) ==
    [enable |-> enable,
     secret |-> IF enable THEN "enable_pw" ELSE "absent",
     devicetype |-> "autodetect",
     con_type |-> "None",
     exception |-> "None",
     connectivity |-> FALSE,
     authentication |-> FALSE,
     authorization |-> FALSE,
     privileged |-> FALSE,
     session |-> "None"]

\* no Connection object is bound (before the first pass, after the task)
NoSession == [session |-> "None"]

(* What the transport does during one device_check: the first call that     *)
(* raises (if it is reached) and the class raised, the answer to            *)
(* 'show version' and the answer to 'show run'.                             *)
RaisePoints == {"none", "connect", "enable", "showver", "sysinfo", "inventory", "showrun"}
ShowVer == {"parsed", "Failed", "Incorrect", "raw"}
ShowRun == {"ok", "Invalid"}

\* one representative for the fields device_check never reads on that path
Canonical(o) ==
    /\ o.raiseAt = "none" => o.exc = ValueError
    /\ o.raiseAt \in {"connect", "enable", "showver"} => o.showver = "parsed"
    /\ o.raiseAt = "sysinfo" => o.showver = "Incorrect"
    /\ o.raiseAt = "inventory" => o.showver \in {"parsed", "Incorrect"}
    /\ o.raiseAt = "showrun" => o.showver = "parsed"
    /\ (o.raiseAt # "none" \/ o.showver # "parsed") => o.showrun = "ok"

Outcomes ==
    {o \in [raiseAt : RaisePoints, exc : Excs, showver : ShowVer, showrun : ShowRun] :
        Canonical(o)}

Result(c, raised, opened) == [c |-> c, raised |-> raised, opened |-> opened]

\* the branch 'if self.enable' of device_check
device_check_enable(c1, o) ==
    IF o.raiseAt \in {"enable", "showver"} THEN Result(c1, o.exc, TRUE)
    ELSE IF o.showver = "Failed" THEN Result(c1, "none", TRUE)
    ELSE LET c2 == [c1 EXCEPT !.authorization = TRUE] IN
         \* showver[0]['hostname'] on raw text raises TypeError
         IF o.showver \in {"raw", "Incorrect"} THEN Result(c2, Exception, TRUE)
         ELSE IF o.raiseAt = "showrun" THEN Result(c2, o.exc, TRUE)
         ELSE IF o.showrun = "Invalid" THEN Result(c2, "none", TRUE)
         ELSE Result([c2 EXCEPT !.privileged = TRUE], "none", TRUE)

\* the branch 'else' of device_check
device_check_plain(c1, o) ==
    IF o.raiseAt = "showver" THEN Result(c1, o.exc, TRUE)
    ELSE IF o.showver = "Failed" THEN Result(c1, "none", TRUE)
    ELSE IF o.showver = "Incorrect" THEN
         IF o.raiseAt = "sysinfo" THEN Result(c1, o.exc, TRUE)
         ELSE LET c2 == [c1 EXCEPT !.authorization = TRUE, !.privileged = TRUE] IN
              \* showver[0]['system_name'] and inventory(showver)
              IF o.raiseAt = "inventory" THEN Result(c2, o.exc, TRUE)
              ELSE Result(c2, "none", TRUE)
    ELSE LET c2 == [c1 EXCEPT !.authorization = TRUE] IN
         \* showver[0]['hostname'] on raw text raises TypeError
         IF o.showver = "raw" THEN Result(c2, Exception, TRUE)
         ELSE IF o.raiseAt = "inventory" THEN Result(c2, o.exc, TRUE)
         ELSE IF o.raiseAt = "showrun" THEN Result(c2, o.exc, TRUE)
         ELSE IF o.showrun = "Invalid"
              THEN Result([c2 EXCEPT !.enable = TRUE, !.secret = "enable_pw",
                                     !.session = "closed"], "none", TRUE)
              ELSE Result([c2 EXCEPT !.privileged = TRUE], "none", TRUE)

(* device_check: its loop body ends in break on every path that does not    *)
(* raise, so one call opens at most one session.                            *)
device_check(c, o) ==
    IF o.raiseAt = "connect" THEN Result(c, o.exc, FALSE)
    ELSE LET c1 == [c EXCEPT !.session = "open"] IN
         IF c.enable THEN device_check_enable(c1, o) ELSE device_check_plain(c1, o)

-----------------------------------------------------------------------------
(* The fallback chain of Connection.__init__.  Each step maps the object    *)
(* and the transport's behaviour to the object after the step and the place *)
(* control goes to: the next step, "returned" (the constructor returns) or  *)
(* "raised" (the exception leaves the constructor).                         *)

Goto(c, to, opened) == [c |-> c, to |-> to, opened |-> opened]

\* the statements after a device_check of an SSH step, without the one on con_type
ssh_success_unmarked(c) ==
    [c EXCEPT !.authentication = TRUE, !.connectivity = TRUE]

\* the three statements after a device_check that returned inside the SSH try
ssh_success(c) ==
    [c EXCEPT !.authentication = TRUE, !.connectivity = TRUE, !.con_type = "SSH"]

\* the same statements of the Telnet steps
telnet_success(c) ==
    [c EXCEPT !.authentication = TRUE, !.connectivity = TRUE, !.con_type = "TELNET"]

(* An exception that left the SSH steps meets the except clauses of the     *)
(* outer try in order: the Telnet tuple, OSError, ConnectionResetError      *)
(* (never reached: an OSError), Exception (logged, nothing recorded).       *)
ssh_except(c, exc, opened) ==
    IF exc \in TelnetFallbackErrors THEN Goto(c, "telnet", opened)
    ELSE IF exc \in OSErrors THEN Goto([c EXCEPT !.exception = OSError], "returned", opened)
    ELSE Goto(c, "returned", opened)

\* an SSH step that goes on to the next one when it ends without authorization
after_ssh_unauthorized_continues(r, next) ==
    IF r.raised = "none"
    THEN IF ~r.c.authorization /\ next # "none" THEN Goto(r.c, next, r.opened)
         ELSE Goto(ssh_success(r.c), "returned", r.opened)
    ELSE IF r.raised \in DetectionErrors /\ next # "none" THEN Goto(r.c, next, r.opened)
    ELSE ssh_except(r.c, r.raised, r.opened)

\* what follows a device_check of an SSH step; next = "none" for the last one
after_ssh(r, next) ==
    IF r.raised = "none" THEN Goto(ssh_success(r.c), "returned", r.opened)
    ELSE IF r.raised \in DetectionErrors /\ next # "none" THEN Goto(r.c, next, r.opened)
    ELSE ssh_except(r.c, r.raised, r.opened)

(* Step 1: SSHDetect(self.device).autodetect(), then device_check.          *)
(* detect is "raise" (with class dexc), a device type, or "None" (no match: *)
(* ConnectHandler then rejects the device type with ValueError).            *)
DetectResults == {"raise", "None", "cisco_ios", "cisco_nxos"}

ConnectValueError ==
    [raiseAt |-> "connect", exc |-> ValueError, showver |-> "parsed", showrun |-> "ok"]

AutoOutcomes ==
    {a \in [detect : DetectResults, dexc : Excs, o : Outcomes] :
        /\ a.detect # "raise" => a.dexc = ValueError
        /\ a.detect \in {"raise", "None"} => a.o = ConnectValueError}

ssh_autodetect_step(c, a) ==
    IF a.detect = "raise"
    THEN IF a.dexc \in DetectionErrors THEN Goto(c, "ssh_forced", FALSE)
         ELSE ssh_except(c, a.dexc, FALSE)
    ELSE after_ssh(device_check([c EXCEPT !.devicetype = a.detect], a.o), "ssh_forced")

\* Step 2: the handler of (ValueError, EOFError): forced cisco_ios
ssh_forced_step(c, o) ==
    after_ssh(device_check([c EXCEPT !.devicetype = "cisco_ios"], o), "ssh_forced_retry")

\* Step 3: the handler of the handler: forced cisco_ios once more
ssh_forced_retry_step(c, o) ==
    after_ssh(device_check([c EXCEPT !.devicetype = "cisco_ios"], o), "none")

\* a Telnet try block whose inner handler catches every class the outer ones record
after_telnet_retry_any(r, first) ==
    IF r.raised = "none" THEN Goto(telnet_success(r.c), "returned", r.opened)
    ELSE IF first /\ r.raised \in TelnetRecorded \cup {NetmikoAuthenticationException}
         THEN Goto(r.c, "telnet_retry", r.opened)
    ELSE IF r.raised = NetmikoAuthenticationException
         THEN Goto([r.c EXCEPT !.connectivity = TRUE,
                               !.exception = NetmikoAuthenticationException],
                   "returned", r.opened)
    ELSE IF r.raised \in TelnetRecorded
         THEN Goto([r.c EXCEPT !.exception = r.raised], "returned", r.opened)
    ELSE Goto(r.c, "raised", r.opened)

\* the except clauses of the Telnet try block; first = the attempt is the first one
after_telnet(r, first) ==
    IF r.raised = "none" THEN Goto(telnet_success(r.c), "returned", r.opened)
    ELSE IF r.raised = NetmikoAuthenticationException
         THEN IF first THEN Goto(r.c, "telnet_retry", r.opened)
              ELSE Goto([r.c EXCEPT !.connectivity = TRUE,
                                    !.exception = NetmikoAuthenticationException],
                        "returned", r.opened)
    ELSE IF r.raised \in TelnetRecorded
         THEN Goto([r.c EXCEPT !.exception = r.raised], "returned", r.opened)
    ELSE Goto(r.c, "raised", r.opened)

\* Steps 4 and 5: Telnet with the login password as secret
telnet_step(c, o) ==
    after_telnet(device_check([c EXCEPT !.devicetype = "cisco_ios_telnet",
                                        !.secret = "password"], o), TRUE)

telnet_retry_step(c, o) ==
    after_telnet(device_check([c EXCEPT !.devicetype = "cisco_ios_telnet",
                                        !.secret = "password"], o), FALSE)

-----------------------------------------------------------------------------
(* The negotiation as a whole.  n = [c, to, orphan]: the object, the place  *)
(* control is at, and whether a session that was opened has been replaced   *)
(* by a later one without a disconnect.                                     *)
Apply(n, r) ==
    [c |-> r.c, to |-> r.to, orphan |-> n.orphan \/ (r.opened /\ n.c.session = "open")]

Start(enable) == [c |-> NewConnection(enable), to |-> "ssh_autodetect", orphan |-> FALSE]

\* the step n.to, under the transport behaviour o
Step(n, o) ==
    CASE n.to = "ssh_forced" -> Apply(n, ssh_forced_step(n.c, o))
      [] n.to = "ssh_forced_retry" -> Apply(n, ssh_forced_retry_step(n.c, o))
      [] n.to = "telnet" -> Apply(n, telnet_step(n.c, o))
      [] n.to = "telnet_retry" -> Apply(n, telnet_retry_step(n.c, o))

\* every way the step called name can end, from the states of S that are at it
Run(S, name, O) ==
    {n \in S : n.to # name} \cup UNION {{Step(n, o) : o \in O} : n \in {m \in S : m.to = name}}

\* every way Connection.__init__ can end: n.to is "returned" or "raised"
Connections(enable, A, O) ==
    Run(Run(Run(Run({Apply(Start(enable), ssh_autodetect_step(NewConnection(enable), a)) : a \in A},
                    "ssh_forced", O), "ssh_forced_retry", O), "telnet", O), "telnet_retry", O)

(* The transport behaviours explored by the orchestrator: every one when    *)
(* there is one target; with two targets the ones built from CoreExcs and   *)
(* CoreRaisePoints with a parsed 'show version'; with more targets the ones *)
(* in which no call raises (the tasks share nothing but the three lists).   *)
CoreExcs == {ValueError, SSHException}
CoreRaisePoints == {"none", "connect", "showrun"}

Core(o) == o.exc \in CoreExcs /\ o.raiseAt \in CoreRaisePoints /\ o.showver = "parsed"

CoreOutcomes == {o \in Outcomes : Core(o)}

CoreAutoOutcomes ==
    {a \in AutoOutcomes : a.detect \in {"raise", "cisco_ios"} /\ a.dexc \in CoreExcs
                          /\ (a.detect # "raise" => Core(a.o))}

\* AsyncSessions never passes enable: args holds username, password, ip_address, enable_pw
FullConnections == Connections(FALSE, AutoOutcomes, Outcomes)
CoreConnections == Connections(FALSE, CoreAutoOutcomes, CoreOutcomes)
\* no call raises; 'show version' is parsed or answered with 'Failed'
Quiet(o) == o.raiseAt = "none" /\ o.showver \in {"parsed", "Failed"}

QuietConnections ==
    Connections(FALSE, {a \in AutoOutcomes : a.detect = "cisco_ios" /\ Quiet(a.o)},
                {o \in Outcomes : Quiet(o)})

\* the ways the construction can end that a task of n targets explores
ConnectionsOf(n) ==
    IF n = 1 THEN FullConnections ELSE IF n = 2 THEN CoreConnections ELSE QuietConnections

-----------------------------------------------------------------------------
(* Tasks *)

\* mgmt_ips=None, the absent target list: a value no target list equals
None == <<"None">>

Tasks == IF mgmt_ips = None THEN {} ELSE DOMAIN mgmt_ips

\* the longest target list explored
MaxTargets == 2

\* the target lists: distinct addresses, from none to MaxTargets of them
IPLists == {[i \in 1..n |-> "10.0.0." \o ToString(i)] : n \in 0..MaxTargets}

\* threads=100, the default of multithread, which AsyncSessions relies on
DefaultThreads == 100

\* the values of the threads argument explored: smaller than the longest target
\* list, and the default, which is larger
PoolSizes == (1..(MaxTargets - 1)) \cup {DefaultThreads}

TypeOK ==
    /\ mgmt_ips \in IPLists \cup {None}
    /\ threads \in PoolSizes
    /\ kw_enable \in BOOLEAN
    /\ pc \in [Tasks -> {"queued", "Connection", "ssh_autodetect", "ssh_forced",
                         "ssh_forced_retry", "telnet", "telnet_retry", "returned",
                         "raised", "successful_append", "done",
                         "Trying", "Success", "Retrying", "Failure"}]

\* the negotiation of task t
Negotiation(t) == [c |-> session[t], to |-> pc[t], orphan |-> orphaned[t]]

\* task t is at n
Advance(t, n) ==
    /\ pc' = [pc EXCEPT ![t] = n.to]
    /\ session' = [session EXCEPT ![t] = n.c]
    /\ orphaned' = [orphaned EXCEPT ![t] = n.orphan]
    /\ UNCHANGED <<verbose, screen_lock, sync_print, called, mgmt_ips, threads, kw_enable, main, no_config_priv, signals,
                   successful_devices, failed_devices, outputs>>

\* with Connection(...) as session: the whole construction, inside a task
Connection(t) ==
    /\ pc[t] = "Connection"
    /\ \E n \in ConnectionsOf(Len(mgmt_ips)) :
          Advance(t, [n EXCEPT !.orphan = @ \/ orphaned[t]])
    /\ UNCHANGED trace

\* a device_check whose break follows only the branch that sets privileged
device_check_passes_unbroken(c, o) ==
    IF device_check(c, o).raised # "none" THEN 1
    ELSE IF c.enable THEN 1
    ELSE IF o.showver \in {"Failed", "Incorrect"} THEN 1
    ELSE IF o.showrun = "Invalid" THEN 2
    ELSE 1

(* The passes through 'while True' of one device_check call, each of which  *)
(* calls ConnectHandler once: every path of the loop body raises or ends in *)
(* break (the enable branch, 'Failed', 'Incorrect', and after both branches *)
(* of the test on 'show run').                                              *)
device_check_passes(c, o) ==
    IF device_check(c, o).raised # "none" THEN 1
    ELSE IF c.enable THEN 1
    ELSE IF o.showver \in {"Failed", "Incorrect"} THEN 1
    ELSE IF o.showrun = "Invalid" THEN 1
    ELSE 1

(* What one fallback step did, kept in trace: the step, the class that left *)
(* it ("none" when device_check returned), whether ConnectHandler returned  *)
(* a session, the passes of the device_check loop (0: not called), and,     *)
(* for a device_check that returned, the answers it read to 'show version'  *)
(* and to 'show run' ("unread" otherwise).                                  *)
StepEntry(name, c, o) ==
    LET r == device_check(c, o)
        read == r.opened /\ o.raiseAt \notin {"enable", "showver"}
    IN [step |-> name, raised |-> r.raised, opened |-> r.opened,
        passes |-> device_check_passes(c, o),
        showver |-> IF read /\ r.raised = "none" THEN o.showver ELSE "unread",
        showrun |-> IF read /\ o.showver = "parsed" /\ o.raiseAt = "none"
                    THEN o.showrun ELSE "unread"]

AutoEntry(c, a) ==
    IF a.detect = "raise"
    THEN [step |-> "ssh_autodetect", raised |-> a.dexc, opened |-> FALSE, passes |-> 0,
          showver |-> "unread", showrun |-> "unread"]
    ELSE StepEntry("ssh_autodetect", c, a.o)

Record(t, e) == trace' = [trace EXCEPT ![t] = Append(@, e)]

\* the construction step by step: the object is created and step 1 runs
ssh_autodetect(t) ==
    /\ pc[t] = "ssh_autodetect"
    /\ \E a \in AutoOutcomes :
          /\ Advance(t, Apply(Start(kw_enable), ssh_autodetect_step(NewConnection(kw_enable), a)))
          /\ Record(t, AutoEntry(NewConnection(kw_enable), a))

ssh_forced(t) ==
    /\ pc[t] = "ssh_forced"
    /\ \E o \in Outcomes :
          /\ Advance(t, Step(Negotiation(t), o))
          /\ Record(t, StepEntry("ssh_forced", session[t], o))

ssh_forced_retry(t) ==
    /\ pc[t] = "ssh_forced_retry"
    /\ \E o \in Outcomes :
          /\ Advance(t, Step(Negotiation(t), o))
          /\ Record(t, StepEntry("ssh_forced_retry", session[t], o))

telnet(t) ==
    /\ pc[t] = "telnet"
    /\ \E o \in Outcomes :
          /\ Advance(t, Step(Negotiation(t), o))
          /\ Record(t, StepEntry("telnet", session[t], o))

telnet_retry(t) ==
    /\ pc[t] = "telnet_retry"
    /\ \E o \in Outcomes :
          /\ Advance(t, Step(Negotiation(t), o))
          /\ Record(t, StepEntry("telnet_retry", session[t], o))

-----------------------------------------------------------------------------
(* The configuration methods of a constructed Connection.  Each returns     *)
(* "None" (the branch 'pass'), raises NoConfigPriv, or hands the commands   *)
(* to the transport ("sent").                                               *)

\* a send_config_set that tests nothing but self.session
send_config_set_unchecked(c) ==
    IF c.session = "None" THEN "None" ELSE "sent"

\* Connection.send_config_set
send_config_set(c) ==
    IF c.session = "None" THEN "None"
    ELSE IF ~c.privileged THEN "NoConfigPriv"
    ELSE "sent"

\* Connection.send_config_file: open(config_file) comes first
send_config_file(c, readable) ==
    IF ~readable THEN "FileNotFoundError" ELSE send_config_set(c)

NoCall == [method |-> "none", readable |-> TRUE, result |-> "none"]

\* the caller of Connection(...) calls send_config_set on the object it got
call_send_config_set(t) ==
    /\ pc[t] = "returned"
    /\ called' = [called EXCEPT ![t] = [method |-> "send_config_set", readable |-> TRUE,
                                        result |-> send_config_set(session[t])]]
    /\ UNCHANGED <<verbose, screen_lock, sync_print, trace, mgmt_ips, threads, kw_enable, main, pc, session, no_config_priv,
                   orphaned, signals, successful_devices, failed_devices, outputs>>

\* the caller calls send_config_file, with a path that can be opened or not
call_send_config_file(t) ==
    /\ pc[t] = "returned"
    /\ \E readable \in BOOLEAN :
          called' = [called EXCEPT ![t] = [method |-> "send_config_file", readable |-> readable,
                                          result |-> send_config_file(session[t], readable)]]
    /\ UNCHANGED <<verbose, screen_lock, sync_print, trace, mgmt_ips, threads, kw_enable, main, pc, session, no_config_priv,
                   orphaned, signals, successful_devices, failed_devices, outputs>>

-----------------------------------------------------------------------------
(* connection(ip_address): the body of the with block and the handlers *)

\* the dictionary 'device' of the success branch
device(t) ==
    [ip_address |-> mgmt_ips[t],
     connection_type |-> session[t].con_type,
     privileged |-> session[t].privileged]

\* the dictionary 'device' of the failure branch
failed_device(t, c) ==
    [ip_address |-> mgmt_ips[t],
     connection_type |-> c.con_type,
     device_type |-> c.devicetype,
     connectivity |-> c.connectivity,
     authentication |-> c.authentication,
     authorization |-> c.authorization,
     privileged |-> c.privileged,
     exception |-> c.exception]

\* Connection.__exit__
Exit(c) == IF c.session # "None" THEN [c EXCEPT !.session = "closed"] ELSE c

\* what function(session) does: returns, or raises one of the two signals or anything else
FunctionResults == {"return", "ForceSessionRetry", "NoConfigPriv", "Exception"}

\* the Connection object c goes out of scope
Release(t, c) ==
    /\ session' = [session EXCEPT ![t] = NoSession]
    /\ orphaned' = [orphaned EXCEPT ![t] = @ \/ c.session = "open"]

\* the other end of the while loop for a task that logged an exception: it ends
after_logged_break == "done"

(* except Exception as e: exception(e) is the last statement of the loop    *)
(* body and is followed by no break: the while True loop starts over.       *)
after_logged == "Connection"

\* the test of the success branch, without the flag: a downgraded target stays usable
usable_downgraded(t) == session[t].authorization

\* the test of the success branch reading privileged where the code reads authorization
usable_privileged(t) == session[t].privileged /\ ~no_config_priv[t]

\* if session.authorization and not no_config_priv
usable(t) == session[t].authorization /\ ~no_config_priv[t]

\* an outputs.append that runs before function(session) is known to return
call_function_appends_first(t) ==
    /\ pc[t] = "returned"
    /\ usable(t)
    /\ \E res \in FunctionResults :
          /\ signals' = [signals EXCEPT ![t] = @ \cup {res}]
          /\ outputs' = Append(outputs, [device |-> device(t), output |-> "output"])
          /\ IF res = "return"
             THEN /\ pc' = [pc EXCEPT ![t] = "successful_append"]
                  /\ UNCHANGED <<session, orphaned, no_config_priv>>
             ELSE /\ no_config_priv' = [no_config_priv EXCEPT ![t] = @ \/ res = "NoConfigPriv"]
                  /\ IF verbose /\ res = "ForceSessionRetry"
                     THEN /\ pc' = [pc EXCEPT ![t] = "Retrying"]
                          /\ UNCHANGED <<session, orphaned>>
                     ELSE /\ Release(t, Exit(session[t]))
                          /\ pc' = [pc EXCEPT ![t] = IF res = "Exception" THEN after_logged
                                                     ELSE "Connection"]
    /\ UNCHANGED <<verbose, screen_lock, sync_print, trace, called, mgmt_ips, threads, kw_enable, main, successful_devices, failed_devices>>

\* if session.authorization and not no_config_priv: function(session) and outputs.append
call_function(t) ==
    /\ pc[t] = "returned"
    /\ usable(t)
    /\ \E res \in FunctionResults :
          /\ signals' = [signals EXCEPT ![t] = @ \cup {res}]
          /\ IF res = "return"
             THEN /\ outputs' = Append(outputs, [device |-> device(t), output |-> "output"])
                  /\ pc' = [pc EXCEPT ![t] = "successful_append"]
                  /\ UNCHANGED <<session, orphaned, no_config_priv>>
             ELSE /\ no_config_priv' = [no_config_priv EXCEPT ![t] = @ \/ res = "NoConfigPriv"]
                  /\ IF verbose /\ res = "ForceSessionRetry"
                     THEN /\ pc' = [pc EXCEPT ![t] = "Retrying"]
                          /\ UNCHANGED <<session, orphaned>>
                     ELSE /\ Release(t, Exit(session[t]))
                          /\ pc' = [pc EXCEPT ![t] = IF res = "Exception" THEN after_logged
                                                     ELSE "Connection"]
                  /\ UNCHANGED outputs
    /\ UNCHANGED <<verbose, screen_lock, sync_print, trace, called, mgmt_ips, threads, kw_enable, main, successful_devices, failed_devices>>

\* self.successful_devices.append(device); break
successful_append(t) ==
    /\ pc[t] = "successful_append"
    /\ successful_devices' = Append(successful_devices, device(t))
    /\ IF verbose
       THEN /\ pc' = [pc EXCEPT ![t] = "Success"]
            /\ UNCHANGED <<session, orphaned>>
       ELSE /\ Release(t, Exit(session[t]))
            /\ pc' = [pc EXCEPT ![t] = "done"]
    /\ UNCHANGED <<verbose, screen_lock, sync_print, trace, called, mgmt_ips, threads, kw_enable, main, no_config_priv, signals,
                   failed_devices, outputs>>

\* the else branch: self.failed_devices.append(device); break
failed_append(t) ==
    /\ pc[t] = "returned"
    /\ ~usable(t)
    /\ LET c == IF no_config_priv[t] THEN [session[t] EXCEPT !.exception = "NoConfigPriv"]
                ELSE session[t]
       IN /\ failed_devices' = Append(failed_devices, failed_device(t, c))
          /\ IF verbose
             THEN /\ pc' = [pc EXCEPT ![t] = "Failure"]
                  /\ session' = [session EXCEPT ![t] = c]
                  /\ UNCHANGED orphaned
             ELSE /\ Release(t, Exit(c))
                  /\ pc' = [pc EXCEPT ![t] = "done"]
    /\ UNCHANGED <<verbose, screen_lock, sync_print, trace, called, mgmt_ips, threads, kw_enable, main, no_config_priv, signals,
                   successful_devices, outputs>>

\* except Exception as e: exception(e), for an exception that left Connection.__init__
except_Exception(t) ==
    /\ pc[t] = "raised"
    /\ signals' = [signals EXCEPT ![t] = @ \cup {"raised"}]
    /\ Release(t, session[t])
    /\ pc' = [pc EXCEPT ![t] = after_logged]
    /\ UNCHANGED <<verbose, screen_lock, sync_print, trace, called, mgmt_ips, threads, kw_enable, main, no_config_priv,
                   successful_devices, failed_devices, outputs>>

-----------------------------------------------------------------------------
(* sync_print(msg), called when verbose: screen_lock.acquire(), print(msg), *)
(* screen_lock.release().  pc[t] is the message while task t is in the call *)
(* and sync_print[t] is "idle" before the acquire, "print" once the         *)
(* semaphore is held and "release" once the line is written.  print is      *)
(* taken to return.                                                         *)

\* Trying, before the loop; Success, Retrying and Failure, inside the with block
Messages == {"Trying", "Success", "Retrying", "Failure"}

\* an acquire that does not wait
can_acquire_nonblocking == TRUE

\* Semaphore.acquire blocks while the value is zero
can_acquire == screen_lock > 0

screen_lock_acquire(t) ==
    /\ pc[t] \in Messages
    /\ sync_print[t] = "idle"
    /\ can_acquire
    /\ screen_lock' = screen_lock - 1
    /\ sync_print' = [sync_print EXCEPT ![t] = "print"]
    /\ UNCHANGED <<verbose, trace, called, mgmt_ips, threads, kw_enable, main, pc, session,
                   no_config_priv, orphaned, signals, successful_devices, failed_devices,
                   outputs>>

print(t) ==
    /\ pc[t] \in Messages
    /\ sync_print[t] = "print"
    /\ sync_print' = [sync_print EXCEPT ![t] = "release"]
    /\ UNCHANGED <<verbose, screen_lock, trace, called, mgmt_ips, threads, kw_enable, main,
                   pc, session, no_config_priv, orphaned, signals, successful_devices,
                   failed_devices, outputs>>

(* screen_lock.release(), and what follows the call: the loop after Trying, *)
(* continue after Retrying, break after Success and Failure; the last three *)
(* leave the with block.                                                    *)
screen_lock_release(t) ==
    /\ pc[t] \in Messages
    /\ sync_print[t] = "release"
    /\ screen_lock' = screen_lock + 1
    /\ sync_print' = [sync_print EXCEPT ![t] = "idle"]
    /\ IF pc[t] = "Trying"
       THEN /\ pc' = [pc EXCEPT ![t] = "Connection"]
            /\ UNCHANGED <<session, orphaned>>
       ELSE /\ Release(t, Exit(session[t]))
            /\ pc' = [pc EXCEPT ![t] = IF pc[t] = "Retrying" THEN "Connection" ELSE "done"]
    /\ UNCHANGED <<verbose, trace, called, mgmt_ips, threads, kw_enable, main,
                   no_config_priv, signals, successful_devices, failed_devices, outputs>>

-----------------------------------------------------------------------------
(* multithread and AsyncSessions.__init__ *)

Min(a, b) == IF a < b THEN a ELSE b

Active == {t \in Tasks : pc[t] \notin {"queued", "done"}}

\* a pool of one worker for each target, whatever threads is
PoolSize_iter_len == Len(mgmt_ips)

\* if iter_len < threads: threads = iter_len; Pool(threads)
PoolSize == Min(threads, Len(mgmt_ips))

\* a map that hands back control at the first result
map_first_done == \E t \in Tasks : pc[t] = "done"

\* Pool.map returns when every task has ended
map_done == \A t \in Tasks : pc[t] = "done"

\* the length check passes a non-empty list on, whatever else the argument is
no_targets_absent == mgmt_ips = None

\* len(mgmt_ips) == 0, or len(None) raises TypeError: InputError either way
no_targets == mgmt_ips = None \/ Len(mgmt_ips) = 0

\* the length check, then multithread(connection, mgmt_ips)
AsyncSessions_init ==
    /\ main = "init"
    /\ main' = IF no_targets THEN "InputError" ELSE "map"
    /\ UNCHANGED <<verbose, screen_lock, sync_print, trace, called, mgmt_ips, threads, kw_enable, pc, session, no_config_priv,
                   orphaned, signals, successful_devices, failed_devices, outputs>>

\* a free worker of the pool takes the next target of the list
worker_start(t) ==
    /\ main = "map"
    /\ pc[t] = "queued"
    /\ \A u \in Tasks : u < t => pc[u] # "queued"
    /\ Cardinality(Active) < PoolSize
    /\ pc' = [pc EXCEPT ![t] = IF verbose THEN "Trying" ELSE "Connection"]
    /\ UNCHANGED <<verbose, screen_lock, sync_print, trace, called, mgmt_ips, threads, kw_enable, main, session, no_config_priv,
                   orphaned, signals, successful_devices, failed_devices, outputs>>

multithread_return ==
    /\ main = "map"
    /\ map_done
    /\ main' = "returned"
    /\ UNCHANGED <<verbose, screen_lock, sync_print, trace, called, mgmt_ips, threads, kw_enable, pc, session, no_config_priv,
                   orphaned, signals, successful_devices, failed_devices, outputs>>

Init ==
    /\ mgmt_ips \in IPLists \cup {None}
    /\ threads \in PoolSizes
    /\ kw_enable = FALSE
    /\ main = "init"
    /\ pc = [t \in Tasks |-> "queued"]
    /\ session = [t \in Tasks |-> NoSession]
    /\ no_config_priv = [t \in Tasks |-> FALSE]
    /\ orphaned = [t \in Tasks |-> FALSE]
    /\ signals = [t \in Tasks |-> {}]
    /\ successful_devices = << >>
    /\ failed_devices = << >>
    /\ outputs = << >>
    /\ trace = [t \in Tasks |-> << >>]
    /\ called = [t \in Tasks |-> NoCall]
    /\ verbose = FALSE
    /\ screen_lock = 1
    /\ sync_print = [t \in Tasks |-> "idle"]

Next ==
    \/ AsyncSessions_init
    \/ multithread_return
    \/ \E t \in Tasks : worker_start(t)
    \/ \E t \in Tasks : Connection(t)
    \/ \E t \in Tasks : call_function(t)
    \/ \E t \in Tasks : successful_append(t)
    \/ \E t \in Tasks : failed_append(t)
    \/ \E t \in Tasks : except_Exception(t)

Spec == Init /\ [][Next]_vars

-----------------------------------------------------------------------------
(* AsyncSessions with verbose=True, every task on a worker of its own *)

InitVerbose ==
    /\ mgmt_ips \in IPLists
    /\ threads = DefaultThreads
    /\ kw_enable = FALSE
    /\ main = "init"
    /\ pc = [t \in Tasks |-> "queued"]
    /\ session = [t \in Tasks |-> NoSession]
    /\ no_config_priv = [t \in Tasks |-> FALSE]
    /\ orphaned = [t \in Tasks |-> FALSE]
    /\ signals = [t \in Tasks |-> {}]
    /\ successful_devices = << >>
    /\ failed_devices = << >>
    /\ outputs = << >>
    /\ trace = [t \in Tasks |-> << >>]
    /\ called = [t \in Tasks |-> NoCall]
    /\ verbose = TRUE
    /\ screen_lock = 1
    /\ sync_print = [t \in Tasks |-> "idle"]

NextVerbose ==
    \/ Next
    \/ \E t \in Tasks : screen_lock_acquire(t)
    \/ \E t \in Tasks : print(t)
    \/ \E t \in Tasks : screen_lock_release(t)

SpecVerbose == InitVerbose /\ [][NextVerbose]_vars

-----------------------------------------------------------------------------
(* One Connection constructed directly, with or without enable=True *)

InitConn ==
    /\ mgmt_ips \in {l \in IPLists : Len(l) = 1}
    /\ threads = DefaultThreads
    /\ kw_enable \in BOOLEAN
    /\ main = "map"
    /\ pc = [t \in Tasks |-> "ssh_autodetect"]
    /\ session = [t \in Tasks |-> NoSession]
    /\ no_config_priv = [t \in Tasks |-> FALSE]
    /\ orphaned = [t \in Tasks |-> FALSE]
    /\ signals = [t \in Tasks |-> {}]
    /\ successful_devices = << >>
    /\ failed_devices = << >>
    /\ outputs = << >>
    /\ trace = [t \in Tasks |-> << >>]
    /\ called = [t \in Tasks |-> NoCall]
    /\ verbose = FALSE
    /\ screen_lock = 1
    /\ sync_print = [t \in Tasks |-> "idle"]

NextConn ==
    \/ \E t \in Tasks : ssh_autodetect(t)
    \/ \E t \in Tasks : ssh_forced(t)
    \/ \E t \in Tasks : ssh_forced_retry(t)
    \/ \E t \in Tasks : telnet(t)
    \/ \E t \in Tasks : telnet_retry(t)
    \/ \E t \in Tasks : call_send_config_set(t)
    \/ \E t \in Tasks : call_send_config_file(t)

SpecConn == InitConn /\ [][NextConn]_vars

-----------------------------------------------------------------------------
(* Properties *)

\* the records of target t in the three lists
Successes(t) == {i \in DOMAIN successful_devices : successful_devices[i].ip_address = mgmt_ips[t]}
Failures(t) == {i \in DOMAIN failed_devices : failed_devices[i].ip_address = mgmt_ips[t]}
Outputs(t) == {i \in DOMAIN outputs : outputs[i].device.ip_address = mgmt_ips[t]}

\* what function raised or returned for target t so far
FunctionSignals(t) == signals[t] \cap FunctionResults

\* an exception that is neither signal was logged in task t
Logged(t) == signals[t] \cap {"Exception", "raised"} # {}

\* C1: once AsyncSessions construction has returned, every target has exactly one
\* record, in successful_devices or in failed_devices, and outputs holds exactly one
\* entry for each target of successful_devices and none for any other target.
C1_ResultSetComplete ==
    main = "returned" =>
        /\ Len(successful_devices) + Len(failed_devices) = Len(mgmt_ips)
        /\ \A t \in Tasks :
              /\ Cardinality(Successes(t)) + Cardinality(Failures(t)) = 1
              /\ Cardinality(Outputs(t)) = Cardinality(Successes(t))

C1_Witness ==
    /\ main = "returned"
    /\ Len(mgmt_ips) = 2
    /\ Len(successful_devices) = 1
    /\ Len(failed_devices) = 1
    /\ \E t \in Tasks : Logged(t)

\* C2: once an exception that is neither ForceSessionRetry nor NoConfigPriv has been
\* logged in a target's task, the task is at its end (the Negotiator is not run and
\* the function is not invoked again) and no record of the target is in the lists.
C2_LoggedTaskEnds ==
    \A t \in Tasks :
        Logged(t) => /\ pc[t] = "done"
                     /\ Successes(t) = {} /\ Failures(t) = {} /\ Outputs(t) = {}

C3_DowngradedState ==
    \A t \in Tasks :
        no_config_priv[t] =>
            /\ Outputs(t) = {} /\ Successes(t) = {}
            /\ pc[t] \in {"Connection", "returned", "raised", "done"}
            /\ \A i \in Failures(t) : failed_devices[i].exception = "NoConfigPriv"
            /\ pc[t] = "done" <=> Failures(t) # {}

\* C3 as amended, in every step: once the Connection of a downgraded target is
\* constructed the function is not invoked; the only step of the task is the
\* failure record, whatever the flags of the Connection.
C3_DowngradedStep ==
    \A t \in Tasks :
        (no_config_priv[t] /\ pc[t] = "returned" /\ pc'[t] # pc[t]) =>
            /\ pc'[t] = "done"
            /\ Len(failed_devices') = Len(failed_devices) + 1
            /\ signals'[t] = signals[t]

C4_RetryNeverRecorded ==
    \A t \in Tasks :
        FunctionSignals(t) = {"ForceSessionRetry"} => Successes(t) = {} /\ Failures(t) = {}

\* C4 as amended, in every state: such a target has no record in successful_devices
\* or outputs, and a record of it in failed_devices comes from a negotiation that
\* ended with authorization false.
C4_RetryState ==
    \A t \in Tasks :
        FunctionSignals(t) = {"ForceSessionRetry"} =>
            /\ Successes(t) = {} /\ Outputs(t) = {}
            /\ \A i \in Failures(t) : ~failed_devices[i].authorization

\* C4 as amended, in every step: a pass that ends in a signal appends nothing and
\* goes back to the construction of a new Connection for the same target.
C4_RetryStep ==
    \A t \in Tasks :
        (pc[t] = "returned" /\ pc'[t] \notin {"returned", "successful_append", "done"}) =>
            /\ pc'[t] = "Connection"
            /\ session'[t] = NoSession
            /\ UNCHANGED <<successful_devices, failed_devices, outputs>>

\* C4 (amended): for a target whose function signals ForceSessionRetry on every
\* invocation, no record is ever appended to successful_devices or outputs; each
\* signal discards the attempt and re-runs the Negotiator from Start; a record is
\* appended to failed_devices only by a pass whose negotiation ended unauthorized.
C4_RetryOnlyFailsUnauthorized == []C4_RetryState /\ [][C4_RetryStep]_vars

C4_Witness ==
    \E t \in Tasks : \E i \in Failures(t) :
        /\ FunctionSignals(t) = {"ForceSessionRetry"}
        /\ pc[t] = "done"
        /\ ~failed_devices[i].authorization

\* C5, in every state: when AsyncSessions construction has returned, every
\* dispatched task has reached its end.
C5_AllEnded == main = "returned" => \A t \in Tasks : pc[t] = "done"

\* C5, in every step: after the return nothing appends to the three lists.
C5_NoLateAppend ==
    main = "returned" => UNCHANGED <<successful_devices, failed_devices, outputs>>

\* C5: AsyncSessions construction returns only after every dispatched task has
\* reached its end, and the three result lists are not mutated afterwards.
C5_JoinSemantics == []C5_AllEnded /\ [][C5_NoLateAppend]_vars

C5_Witness ==
    /\ main = "returned"
    /\ Len(mgmt_ips) = 2
    /\ threads = DefaultThreads
    /\ Len(outputs) = 2

\* C6: when a target's task has ended, every transport session the task opened has
\* been disconnected.
C6_SessionsReleased == \A t \in Tasks : pc[t] = "done" => ~orphaned[t]

\* C7: a Connection whose construction returned with authorization true exposes an
\* open transport session.
C7_AuthorizedSessionOpen ==
    \A t \in Tasks :
        (pc[t] = "returned" /\ session[t].authorization) => session[t].session = "open"

\* C8: in the terminal state of a negotiation,
\* privileged => authorization => authentication => connectivity.
C8_FlagChain ==
    \A t \in Tasks :
        pc[t] = "returned" =>
            /\ session[t].privileged => session[t].authorization
            /\ session[t].authorization => session[t].authentication
            /\ session[t].authentication => session[t].connectivity

\* C9: in the terminal state of a negotiation exactly one of the two holds: the
\* exception field is 'None', or authentication is false.
C9_ExceptionXorUnauthenticated ==
    \A t \in Tasks :
        pc[t] = "returned" =>
            (session[t].exception = "None") # (session[t].authentication = FALSE)

\* C10: when 'show run' was rejected and device_check set enable and attached the
\* enable secret, the connection torn down is established again in the same
\* fallback step, so that the construction ends with an open session.
C10_EscalationReconnects ==
    \A t \in Tasks :
        (pc[t] = "returned" /\ session[t].enable /\ ~kw_enable) =>
            /\ session[t].secret = "enable_pw"
            /\ session[t].session = "open"

-----------------------------------------------------------------------------
(* Properties of the fallback chain, read off trace *)

SSHSteps == {"ssh_autodetect", "ssh_forced", "ssh_forced_retry"}
TelnetSteps == {"telnet", "telnet_retry"}

\* the construction of task t is over: it returned the object or raised
Ended(t) == pc[t] \in {"returned", "raised"}

Last(q) == q[Len(q)]

\* C11: no error raised by the transport in a fallback step, SSH or Telnet, leaves
\* Connection construction: every negotiation ends by returning the object.
C11_NoErrorLeavesConstruction == \A t \in Tasks : pc[t] # "raised"

\* the kinds the claim calls recoverable: connection refused or timed out,
\* value/format/EOF detection failure, credentials rejected
RecoverableErrors == {ConnectionRefusedError, NetmikoTimeoutException, ValueError, EOFError,
                      NetmikoAuthenticationException}

\* C12: a negotiation whose every SSH step raised a recoverable error and in which
\* no Telnet attempt failed ends with con_type TELNET.
C12_RecoverableSSHEndsTelnet ==
    \A t \in Tasks :
        ( /\ Ended(t)
          /\ \A i \in DOMAIN trace[t] :
                /\ trace[t][i].step \in SSHSteps => trace[t][i].raised \in RecoverableErrors
                /\ trace[t][i].step \in TelnetSteps => trace[t][i].raised = "none" )
        => pc[t] = "returned" /\ session[t].con_type = "TELNET"

\* the Unreachable class: connection refused, timeout, host error
UnreachableErrors == {ConnectionRefusedError, NetmikoTimeoutException, TimeoutError, OSError}

\* C13: a negotiation whose every attempted step raised an error of the Unreachable
\* class ends by returning an object with authentication false, connectivity false
\* and an exception field of the Unreachable class.
C13_UnreachableEndsClassified ==
    \A t \in Tasks :
        (Ended(t) /\ \A i \in DOMAIN trace[t] : trace[t][i].raised \in UnreachableErrors)
        => /\ pc[t] = "returned"
           /\ ~session[t].authentication
           /\ ~session[t].connectivity
           /\ session[t].exception \in UnreachableErrors

\* step 1 left by a detection error, then a forced SSH step that connects, has
\* 'show version' parsed and 'show run' not rejected
ForcedSSHSucceeded(t) ==
    /\ Len(trace[t]) >= 2
    /\ trace[t][1].raised \in DetectionErrors
    /\ trace[t][2].step = "ssh_forced"
    /\ trace[t][2].raised = "none"
    /\ trace[t][2].showver = "parsed"
    /\ trace[t][2].showrun = "ok"

\* C14: when autodetection fails with ValueError or EOFError and the forced SSH step
\* connects, is authorized and has 'show run' accepted, the construction returns with
\* con_type SSH, authorization and privileged true, and no Telnet step is attempted.
C14_ForcedSSHSucceeds ==
    \A t \in Tasks :
        ForcedSSHSucceeded(t) =>
            /\ pc[t] = "returned"
            /\ Len(trace[t]) = 2
            /\ session[t].con_type = "SSH"
            /\ session[t].authorization
            /\ session[t].privileged

C14_Witness ==
    \E t \in Tasks :
        ForcedSSHSucceeded(t) /\ trace[t][1].raised = EOFError /\ ~trace[t][1].opened
                              /\ ~kw_enable

\* C15: with an empty or absent target list AsyncSessions construction ends in
\* InputError: multithread is never called, no task is dispatched, and nothing is
\* appended to the three lists.
C15_NoTargetsInputError ==
    (mgmt_ips = None \/ mgmt_ips = << >>) =>
        /\ main \in {"init", "InputError"}
        /\ \A t \in Tasks : pc[t] = "queued"
        /\ successful_devices = << >> /\ failed_devices = << >> /\ outputs = << >>

C15_Witness == main = "InputError" /\ mgmt_ips = None

\* C16: for N targets and pool size P the number of tasks that are started and not
\* yet ended is at most min(N, P), in every reachable state.
C16_WorkerCount ==
    mgmt_ips # None => Cardinality(Active) <= Min(Len(mgmt_ips), threads)

C16_Witness ==
    /\ Len(mgmt_ips) = 2 /\ threads = 1
    /\ pc[1] = "done" /\ pc[2] \notin {"queued", "done"}

\* C17 as claimed: a configuration method (with a file that can be read) called on
\* an object whose privileged flag is false raises NoConfigPriv.
C17_UnprivilegedConfigRaises ==
    \A t \in Tasks :
        (called[t].method # "none" /\ called[t].readable /\ ~session[t].privileged)
        => called[t].result = "NoConfigPriv"

\* C17 as amended, in every state: on an object that is not privileged the method
\* sends nothing; it raises NoConfigPriv when self.session is set and returns None
\* when self.session is None.
C17_UnprivilegedState ==
    \A t \in Tasks :
        (called[t].method # "none" /\ called[t].readable /\ ~session[t].privileged)
        => called[t].result = IF session[t].session = "None" THEN "None" ELSE "NoConfigPriv"

\* C17 as amended, in every step: a call leaves the Connection object as it was.
C17_CallStep ==
    \A t \in Tasks : called'[t] # called[t] => session'[t] = session[t] /\ pc'[t] = pc[t]

\* C17 (amended): send_config_set, and send_config_file with a readable file, called
\* on an object whose privileged flag is false send no command and leave the object
\* unchanged; they raise NoConfigPriv if self.session is not None and return None
\* without raising if self.session is None.
C17_UnprivilegedConfigSendsNothing == []C17_UnprivilegedState /\ [][C17_CallStep]_vars

C17_Witness ==
    \E t \in Tasks :
        /\ called[t].method = "send_config_file" /\ called[t].readable
        /\ session[t].authorization /\ ~session[t].privileged
        /\ called[t].result = "NoConfigPriv"

\* the transport of a fallback step
TransportOf(step) == IF step \in SSHSteps THEN "SSH" ELSE "TELNET"

\* a step that opened a connection and read 'Failed' as the answer to 'show version'
ShowVerFailed(e) == e.opened /\ e.showver = "Failed"

\* C18 as claimed: after a step that opened a connection and had 'show version'
\* answered with 'Failed', the negotiation is at the next fallback step, not over.
C18_FailedContinues ==
    \A t \in Tasks :
        (trace[t] # << >> /\ ShowVerFailed(Last(trace[t])) /\ Last(trace[t]).step # "telnet_retry")
        => ~Ended(t)

\* C18 as amended, in every state: such a step is the last one of the negotiation,
\* which returned the object with authentication and connectivity true and con_type
\* set to the transport of the step.
C18_FailedState ==
    \A t \in Tasks : \A i \in DOMAIN trace[t] :
        ShowVerFailed(trace[t][i]) =>
            /\ i = Len(trace[t])
            /\ pc[t] = "returned"
            /\ session[t].authentication /\ session[t].connectivity
            /\ session[t].con_type = TransportOf(trace[t][i].step)
            /\ session[t].exception = "None"

\* C18 as amended, in every step: such a step leaves authorization as it was (false
\* on the new object of step 1).
C18_FailedStep ==
    \A t \in Tasks :
        (Len(trace'[t]) = Len(trace[t]) + 1 /\ ShowVerFailed(Last(trace'[t]))) =>
            session'[t].authorization =
                (IF pc[t] = "ssh_autodetect" THEN FALSE ELSE session[t].authorization)

\* C18 (amended): a fallback step that opens a connection and reads 'Failed' as the
\* answer to 'show version' does not set authorization and ends the negotiation at
\* that step: device_check returns, authentication and connectivity become true,
\* con_type is the step's transport, and no further fallback step is attempted.
C18_FailedEndsNegotiation == []C18_FailedState /\ [][C18_FailedStep]_vars

C18_Witness ==
    \E t \in Tasks :
        /\ Len(trace[t]) = 2 /\ ShowVerFailed(trace[t][2]) /\ trace[t][2].step = "ssh_forced"
        /\ pc[t] = "returned" /\ ~session[t].authorization /\ session[t].authentication

\* C20: within one negotiation Telnet is attempted at most twice; the second attempt
\* follows the first one exactly when that raised NetmikoAuthenticationException;
\* any other error of the first attempt, and whatever the second does, ends the chain.
C20_TelnetRetryOnlyOnAuth ==
    \A t \in Tasks :
        /\ Cardinality({i \in DOMAIN trace[t] : trace[t][i].step \in TelnetSteps}) <= 2
        /\ Cardinality({i \in DOMAIN trace[t] : trace[t][i].step = "telnet"}) <= 1
        /\ pc[t] = "telnet_retry" =>
              Last(trace[t]).step = "telnet"
        /\ \A i \in DOMAIN trace[t] :
              /\ trace[t][i].step = "telnet_retry" =>
                    /\ i > 1 /\ trace[t][i - 1].step = "telnet"
                    /\ i = Len(trace[t]) /\ Ended(t)
              /\ trace[t][i].step = "telnet" =>
                    IF trace[t][i].raised = NetmikoAuthenticationException
                    THEN \/ i = Len(trace[t]) /\ pc[t] = "telnet_retry"
                         \/ i + 1 = Len(trace[t]) /\ trace[t][i + 1].step = "telnet_retry"
                    ELSE i = Len(trace[t]) /\ Ended(t)

C20_Witness ==
    \E t \in Tasks :
        /\ Len(trace[t]) = 3
        /\ trace[t][1].raised = ConnectionRefusedError
        /\ trace[t][2].step = "telnet" /\ trace[t][2].raised = NetmikoAuthenticationException
        /\ trace[t][3].step = "telnet_retry" /\ trace[t][3].raised = NetmikoAuthenticationException
        /\ pc[t] = "returned" /\ session[t].exception = NetmikoAuthenticationException

\* C22, in every state: each target has as many records in successful_devices as in
\* outputs, or one less, and one less exactly between the two appends of a pass.
C22_PairedState ==
    \A t \in Tasks :
        /\ Cardinality(Successes(t)) <= Cardinality(Outputs(t))
        /\ Cardinality(Outputs(t)) <= Cardinality(Successes(t)) + 1
        /\ Cardinality(Outputs(t)) = Cardinality(Successes(t)) + 1
              <=> pc[t] = "successful_append"

\* C22, in every step: a pass in which the function raises, a signal or anything
\* else, appends to none of the lists.
C22_RaiseStep ==
    \A t \in Tasks :
        (signals'[t] # signals[t] /\ signals'[t] \ signals[t] # {"return"}) =>
            UNCHANGED <<outputs, successful_devices, failed_devices>>

\* C22: for every target the records of successful_devices are at most those of
\* outputs and at most one less, the gap existing only between the two appends of
\* one successful pass; a pass in which the function raises appends to neither.
C22_OutputsPairSuccesses == []C22_PairedState /\ [][C22_RaiseStep]_vars

C22_Witness ==
    \E t \in Tasks :
        /\ pc[t] = "successful_append"
        /\ Cardinality(Outputs(t)) = 1 /\ Successes(t) = {}
        /\ {"ForceSessionRetry", "Exception"} \subseteq signals[t]

\* the place of a step in the chain of Connection.__init__
Rank(p) ==
    CASE p = "ssh_autodetect" -> 1
      [] p = "ssh_forced" -> 2
      [] p = "ssh_forced_retry" -> 3
      [] p = "telnet" -> 4
      [] p = "telnet_retry" -> 5
      [] OTHER -> 6

StepsOf(t, S) == {i \in DOMAIN trace[t] : trace[t][i].step \in S}

\* C23, in every state: at most one autodetection, three SSH and two Telnet
\* device_check calls, each of one pass through its loop and so of at most one
\* ConnectHandler call.
C23_BoundedState ==
    \A t \in Tasks :
        /\ Cardinality(StepsOf(t, {"ssh_autodetect"})) <= 1
        /\ Cardinality(StepsOf(t, SSHSteps)) <= 3
        /\ Cardinality(StepsOf(t, TelnetSteps)) <= 2
        /\ \A i \in DOMAIN trace[t] :
              /\ trace[t][i].passes <= 1
              /\ trace[t][i].opened => trace[t][i].passes = 1
              /\ trace[t][i].passes = 0 => i = 1 /\ trace[t][i].raised # "none"

\* C23, in every step: a transport attempt moves the construction forward in the
\* chain, so no step is taken twice.
C23_ForwardStep ==
    \A t \in Tasks :
        Len(trace'[t]) # Len(trace[t]) =>
            /\ Len(trace'[t]) = Len(trace[t]) + 1
            /\ Rank(pc'[t]) > Rank(pc[t])
            /\ Last(trace'[t]).step = pc[t]

\* C23: one Connection construction makes a bounded number of transport attempts: at
\* most one autodetection, three SSH and two Telnet connection opens, one
\* ConnectHandler call for each device_check call, and every attempt moves the
\* construction forward, so that it ends.
C23_BoundedAttempts == []C23_BoundedState /\ [][C23_ForwardStep]_vars

C23_Witness ==
    \E t \in Tasks :
        /\ Ended(t)
        /\ Len(trace[t]) = 5
        /\ \A i \in DOMAIN trace[t] : trace[t][i].opened

\* the tasks between screen_lock.acquire() and the end of screen_lock.release()
InSyncPrint == {t \in Tasks : sync_print[t] # "idle"}

\* C21: with verbose on, at most one task at a time is inside the critical section
\* of sync_print (acquire, print, release), whatever the interleaving of the tasks.
C21_OnePrinter ==
    /\ Cardinality(InSyncPrint) <= 1
    /\ screen_lock = 1 - Cardinality(InSyncPrint)

C21_Witness ==
    /\ Len(mgmt_ips) = 2
    /\ sync_print[1] = "print" /\ pc[1] = "Success"
    /\ sync_print[2] = "idle" /\ pc[2] = "Failure"

====
